---- MODULE Spec2Model ----
(***************************************************************************)
(* Verification model of the political-pulse-mapper data-access layer.     *)
(*                                                                         *)
(*   Spec          the server-side data service (api/databaseService) and  *)
(*                 the three HTTP handlers that call it, run on one        *)
(*                 JavaScript event loop: a FIFO queue of promise jobs     *)
(*                 (mq), the module-level handles and in-flight            *)
(*                 initialization promises, and the external operations    *)
(*                 (driver loading, file reads, queries) that settle at    *)
(*                 any time.  Consecutive jobs of one request that touch   *)
(*                 nothing but that request (the read operation resuming   *)
(*                 from ensure*, the handler resuming from the read        *)
(*                 operation) run in the step of the job that starts them. *)
(*   SpecBrowser   the browser-hosted data service: HTTP read API first,   *)
(*                 bundled SQLite fallback second.                         *)
(*   SpecClassify  determineIdeology applied to a grid of score pairs.     *)
(*                                                                         *)
(* Scores are fixed-point numbers in hundredths: 201 stands for 2.01.      *)
(***************************************************************************)
EXTENDS Integers, Sequences, FiniteSets, TLC

\* ---------------------------------------------------------------- bounds
\* Number of HTTP requests (read-operation invocations) in one behaviour.
MaxReq == 4

Reqs == 1..MaxReq
\* The calls of the browser service's read operations that are modelled.
MaxCall == 2
Calls == 1..MaxCall

\* ------------------------------------------------------------- constants
Endpoints == {"countries", "parties", "policies"}
Stores == {"pg", "sqlite"}
\* A request carries a method: Node's http server sets req.method on every
\* request it delivers.
Methods == {"GET", "POST", "DELETE"}
\* The required query parameter of a request: given with a value, absent,
\* or given with the empty string.
Params == {"present", "missing", "empty"}
\* What a query (and the row mapping that follows it inside the same try
\* block) can do: yield rows, yield no rows, or throw.
QueryOutcomes == {"rows", "norows", "throw"}
\* What the HTTP read API can do for the browser: the request throws, the
\* status is not a success, the body is no JSON, the body is a JSON array
\* with elements or without, or the body is JSON null.
ApiOutcomes == {"throw", "notOk", "badJson", "array", "emptyArray", "null"}

\* Scores are fixed-point numbers: Scale units make 1.0, so that with Scale
\* 100 the score 2.01 is 201.  The scores classified are the thresholds
\* 0, 1, 2 and 3, their nearest neighbours on both sides, their negatives,
\* and +-MaxScore.
Scale == 100
MaxScore == 4
Scores ==
    {sg * (m * Scale + d) : sg \in {-1, 1}, m \in 0..3, d \in {-1, 0, 1}}
        \cup {-MaxScore * Scale, MaxScore * Scale}
Ideologies == {"centrist", "liberal", "conservative", "libertarian",
               "authoritarian", "socialist", "green"}

CountryCodes == {"Germany", "Poland"}
PartyIds == {"cdu", "spd"}
\* The country column of a stored party: a country of the flag table
\* (COUNTRY_FLAGS), a country that is not in it, or the empty text.
StoredCountries == CountryCodes \cup {"Italy", ""}
\* The ranks of the party names of a table in the store's collation.
NameRanks == {1, 2}

\* ------------------------------------------------------ stored values
\* A value a store delivers for a column, and a value of the normalized
\* output: null, a number (scores in fixed point, years as they are), text
\* that Number() parses to the number v, text that Number() cannot parse,
\* the empty text, NaN, and undefined.
Null == [t |-> "null", v |-> 0]
Num(n) == [t |-> "number", v |-> n]
NumText(n) == [t |-> "numtext", v |-> n]
JunkText == [t |-> "junktext", v |-> 0]
EmptyText == [t |-> "emptytext", v |-> 0]
NaN == [t |-> "nan", v |-> 0]
Undefined == [t |-> "undefined", v |-> 0]

\* A text value: null, or the text s (which may be empty).
NullText == [t |-> "null", s |-> ""]
Text(s) == [t |-> "text", s |-> s]

\* Rows of one table in one behaviour.
MaxRows == 2
\* Characters of a party name in one behaviour.
MaxNameLen == 5

VARIABLES
    usePostgres,        \* Boolean(DATABASE_URL), fixed for the process
    sqliteDb,           \* 0 = null, else the handle made by attempt n
    sqliteInitPromise,  \* 0 = null, else the promise of attempt n
    pgPool,             \* 0 = null, else the pool made by attempt n
    pgInitPromise,      \* 0 = null, else the promise of attempt n
    attempts,           \* the initialization attempts started so far
    req,                \* the requests in flight: input and position
    mq,                 \* the promise job queue of the event loop, FIFO
    response,           \* what the last step gave a caller: the HTTP
                        \* response of a handler, or the value returned
                        \* by a read operation of the browser service
    isBrowserEnvironment, \* typeof window !== 'undefined'
    leftRight,          \* determineIdeology's first argument
    authLib,            \* determineIdeology's second argument
    ideology,           \* what determineIdeology returned, "none" before
    table,              \* the rows stored in the table a read operation
                        \* queries, the same in both stores
    arg,                \* the country code or party id asked for
    out,                \* per path (pg, sqlite): whether the read operation
                        \* has run on it, and the array it returned
    name,               \* a stored party name, as its characters
    shortName,          \* whether the short name has been derived from
                        \* it, and the short name's characters
    selectedCountries,  \* Index page: the countries selected, in order
    selectedParty,      \* Index page: the id of the party selected, or
                        \* "null"
    visibleIdeologies,  \* Index page: the ideologies shown
    isDrawerOpen        \* Index page: whether the detail drawer is open

vars == <<usePostgres, sqliteDb, sqliteInitPromise, pgPool, pgInitPromise,
          attempts, req, mq, response, isBrowserEnvironment,
          leftRight, authLib, ideology, table, arg, out, name, shortName,
          selectedCountries, selectedParty, visibleIdeologies, isDrawerOpen>>

pageVars ==
    <<selectedCountries, selectedParty, visibleIdeologies, isDrawerOpen>>

dataVars == <<table, arg, out, name, shortName>>

NoShortName == [done |-> FALSE, text |-> << >>]

\* No read operation has run on either path.
NoOut == [p \in Stores |-> [done |-> FALSE, rows |-> << >>]]

scoreVars == <<leftRight, authLib, ideology>>

config == <<usePostgres, isBrowserEnvironment>>

storeVars == <<sqliteDb, sqliteInitPromise, pgPool, pgInitPromise>>

\* ------------------------------------------------------------- helpers
\* A request before it arrives.  caller: what awaits its read operation, an
\* HTTP handler or a read operation of the browser service.  ep/method/
\* param: the endpoint called, the request's method and its required query
\* parameter.  api: what the HTTP read API did for the browser service.
\* store/att/db: the store that operation selected, the attempt it awaits,
\* the handle it was given.  touched: the stores it asked to initialize or
\* queried.
NoReq == [pc |-> "new", caller |-> "none", ep |-> "none", method |-> "none",
          param |-> "none", api |-> "none", store |-> "none", att |-> 0,
          db |-> 0, touched |-> {}]

\* A request that has been answered: its handler has returned.
DoneReq == [NoReq EXCEPT !.pc = "done"]

\* res: what the read operation gave the handler; failed: the read operation
\* saw the initialization or the query fail.
NoResponse == [r |-> 0, caller |-> "none", ep |-> "none", method |-> "none",
               param |-> "none", api |-> "none", store |-> "none", att |-> 0,
               db |-> 0, touched |-> {},
               failed |-> FALSE, res |-> "none", status |-> 0,
               body |-> "none"]

Job(k, r, a) == [k |-> k, r |-> r, a |-> a]

\* A settlement that resumes the first of the callers awaiting attempt a
\* alone.
WaiterJobsFirstOnly(a, ws) ==
    IF ws = << >> THEN << >> ELSE <<Job("waiter", Head(ws), a)>>

\* The jobs that resume the callers awaiting attempt a, in the order in
\* which they started to await it.
RECURSIVE WaiterJobs(_, _)
WaiterJobs(a, ws) ==
    IF ws = << >> THEN << >>
    ELSE <<Job("waiter", Head(ws), a)>> \o WaiterJobs(a, Tail(ws))

\* The requests the platform delivers: the countries endpoint takes no
\* parameter.
Requests ==
    {x \in Endpoints \X Methods \X Params :
        x[1] = "countries" => x[3] = "missing"}

\* ------------------------------------------------------------ the state
\* The useState initial values of the Index page.
InitPage ==
    /\ selectedCountries = << >>
    /\ selectedParty = "null"
    /\ visibleIdeologies = Ideologies
    /\ isDrawerOpen = FALSE

Init ==
    /\ usePostgres \in BOOLEAN
    /\ sqliteDb = 0
    /\ sqliteInitPromise = 0
    /\ pgPool = 0
    /\ pgInitPromise = 0
    /\ attempts = << >>
    /\ req = [r \in Reqs |-> NoReq]
    /\ mq = << >>
    /\ response = NoResponse
    /\ isBrowserEnvironment = FALSE
    /\ leftRight = 0
    /\ authLib = 0
    /\ ideology = "none"
    /\ table = << >>
    /\ arg = "none"
    /\ out = NoOut
    /\ name = << >>
    /\ shortName = NoShortName
    /\ InitPage

\* ------------------------------------------------------- the environment
\* The platform schedules a call of an endpoint's handler.
Schedule(r) ==
    /\ req[r].pc = "new"
    /\ IF r = 1 THEN TRUE ELSE req[r - 1].pc # "new"
    /\ req' = [req EXCEPT ![r].pc = "scheduled"]
    /\ mq' = Append(mq, Job("call", r, 0))
    /\ response' = NoResponse
    /\ UNCHANGED <<config, pageVars, scoreVars, dataVars, storeVars, attempts>>

\* An external operation awaited by attempt a (sql.js start-up, the path
\* lookup and the file read for SQLite; for Postgres the import of the Neon
\* driver, the Neon adapter's probe query, the import of pg, the pool's
\* probe query) settles: the continuation of the attempt's closure is
\* queued.
Settle(a) ==
    /\ a \in 1..Len(attempts)
    /\ attempts[a].stage \in {"sqlite", "neon", "neonProbe", "pg", "pgProbe"}
    /\ ~attempts[a].queued
    /\ attempts' = [attempts EXCEPT ![a].queued = TRUE]
    /\ mq' = Append(mq, Job("init", 0, a))
    /\ response' = NoResponse
    /\ UNCHANGED <<config, pageVars, scoreVars, dataVars, storeVars, req>>

\* ------------------------------------------------------- the HTTP handlers
\* In the operators below q is the frame of request r: its record in req
\* as the running job has changed it so far.

\* res.status(code).json(body), after which the handler returns.
Send(r, q, failed, res, code, body) ==
    /\ response' = [r |-> r, caller |-> q.caller, ep |-> q.ep,
                    method |-> q.method, param |-> q.param, api |-> q.api,
                    store |-> q.store, att |-> q.att, db |-> q.db,
                    touched |-> q.touched, failed |-> failed, res |-> res,
                    status |-> code, body |-> body]
    /\ req' = [req EXCEPT ![r] = DoneReq]

\* The handler resumes from `await fetch*FromDatabase(...)`: 200 with the
\* array, or 500 from its catch block when the read operation rejected.
handlerResume(r, q, failed, res) ==
    IF res = "rejected"
    THEN Send(r, q, failed, res, 500, "error")
    ELSE Send(r, q, failed, res, 200, res)

\* A read operation of the browser service returns value to the application.
browserReturn(r, q, failed, res, value) ==
    Send(r, q, failed, res, 0, value)

\* ------------------------------------------------------ the read operations
\* The read operation of request r settles and its caller resumes: the
\* handler, or fetchCountries / fetchParties / fetchPartyPolicies of the
\* browser service, which return the fallback's result.
fetchReturn(r, q, failed, res) ==
    IF q.caller = "handler" THEN handlerResume(r, q, failed, res)
    ELSE browserReturn(r, q, failed, res, res)

\* Mutant of fetchCatch: the catch block rethrows.
fetchCatchRethrows == "rejected"

\* What the catch block of a read operation gives the caller: return [].
fetchCatch == "empty"

\* Mutant of fetchResult: the query runs outside the try block.
fetchResultUncaught(r, q, o) ==
    IF o = "throw" THEN fetchReturn(r, q, TRUE, "rejected")
    ELSE fetchReturn(r, q, FALSE, IF o = "rows" THEN "rows" ELSE "empty")

\* The outcome of a query and of the row mapping after it, inside the try
\* block of the read operation: the mapped rows, [] for no rows, and the
\* catch block's value when either throws.
fetchResult(r, q, o) ==
    IF o = "throw" THEN fetchReturn(r, q, TRUE, fetchCatch)
    ELSE fetchReturn(r, q, FALSE, IF o = "rows" THEN "rows" ELSE "empty")

\* The read operation of request r resumes from `await ensure*()`: a
\* rejection goes to its catch block; with a SQLite handle it runs db.exec
\* and maps the rows at once; with a Postgres pool it awaits pool.query.
fetchResume(r, q, ok) ==
    IF ~ok
    THEN fetchReturn(r, q, TRUE, fetchCatch)
    ELSE IF q.store = "sqlite"
    THEN \E o \in QueryOutcomes : fetchResult(r, q, o)
    ELSE /\ req' = [req EXCEPT ![r] = [q EXCEPT !.pc = "waitQuery"]]
         /\ response' = NoResponse

\* pool.query of request r settles and the read operation resumes.
QuerySettle(r, o) ==
    /\ req[r].pc = "waitQuery"
    /\ fetchResult(r, req[r], o)
    /\ UNCHANGED <<config, pageVars, scoreVars, dataVars, storeVars,
                   attempts, mq>>

\* ------------------------------------------------- the connection manager
\* A new attempt: the async closure runs up to its first await, which for
\* Postgres is the import of the Neon driver in createNeonQueryAdapter.
\* neon, pg: how far createNeonQueryAdapter and createPgPool have come in
\* this attempt: not called ("none"), importing the driver ("loading"),
\* awaiting the probe query of the client made ("probing"), returned the
\* client ("ok"), thrown ("failed").
NewAttempt(s) ==
    [store |-> s, stage |-> IF s = "pg" THEN "neon" ELSE "sqlite",
     queued |-> FALSE, waiters |-> << >>, handled |-> FALSE,
     neon |-> IF s = "pg" THEN "loading" ELSE "none", pg |-> "none"]

\* `await p` in request r on the promise of attempt a: r joins the waiters
\* of a pending promise; on a settled one its resumption is queued at once.
AwaitAttempt(r, q, a, atts) ==
    /\ req' = [req EXCEPT ![r] = [q EXCEPT !.pc = "waitInit", !.att = a]]
    /\ response' = NoResponse
    /\ IF atts[a].stage \in {"resolved", "rejected"}
       THEN /\ attempts' = atts
            /\ mq' = Append(Tail(mq), Job("waiter", r, a))
       ELSE /\ attempts' = [atts EXCEPT ![a].waiters = Append(@, r)]
            /\ mq' = Tail(mq)

\* Mutant of sqliteInitNeeded: the cached in-flight attempt is not consulted.
sqliteInitNeededAlways == TRUE

\* if (!sqliteInitPromise)
sqliteInitNeeded == sqliteInitPromise = 0

\* if (!pgInitPromise)
pgInitNeeded == pgInitPromise = 0

\* ensureSqlite, called by the read operation of request r, to its first
\* suspension.
ensureSqlite(r, q0) ==
    LET q == [q0 EXCEPT !.store = "sqlite", !.touched = @ \cup {"sqlite"}] IN
    IF sqliteDb # 0
    THEN /\ fetchResume(r, [q EXCEPT !.db = sqliteDb], TRUE)
         /\ mq' = Tail(mq)
         /\ UNCHANGED <<storeVars, attempts>>
    ELSE LET fresh == sqliteInitNeeded
             a     == IF fresh THEN Len(attempts) + 1 ELSE sqliteInitPromise
             atts  == IF fresh THEN Append(attempts, NewAttempt("sqlite"))
                      ELSE attempts
         IN  /\ sqliteInitPromise' = a
             /\ AwaitAttempt(r, q, a, atts)
             /\ UNCHANGED <<sqliteDb, pgPool, pgInitPromise>>

\* ensurePostgres, called by the read operation of request r, to its first
\* suspension.
ensurePostgres(r, q0) ==
    LET q == [q0 EXCEPT !.store = "pg", !.touched = @ \cup {"pg"}] IN
    IF ~usePostgres
    THEN \* throw new Error('Postgres is not enabled')
         /\ fetchResume(r, q, FALSE)
         /\ mq' = Tail(mq)
         /\ UNCHANGED <<storeVars, attempts>>
    ELSE IF pgPool # 0
    THEN /\ fetchResume(r, [q EXCEPT !.db = pgPool], TRUE)
         /\ mq' = Tail(mq)
         /\ UNCHANGED <<storeVars, attempts>>
    ELSE LET fresh == pgInitNeeded
             a     == IF fresh THEN Len(attempts) + 1 ELSE pgInitPromise
             atts  == IF fresh THEN Append(attempts, NewAttempt("pg"))
                      ELSE attempts
         IN  /\ pgInitPromise' = a
             /\ AwaitAttempt(r, q, a, atts)
             /\ UNCHANGED <<sqliteDb, sqliteInitPromise, pgPool>>

\* The closure of ensureSqlite resumes: it stores the handle and resolves,
\* or it throws and the promise rejects.
sqliteInitBody(a, ok) ==
    IF ok
    THEN /\ sqliteDb' = a
         /\ attempts' = [attempts EXCEPT ![a].stage = "resolved",
                                         ![a].waiters = << >>]
         /\ mq' = Tail(mq) \o WaiterJobs(a, attempts[a].waiters)
         /\ UNCHANGED <<sqliteInitPromise, pgPool, pgInitPromise>>
    ELSE /\ attempts' = [attempts EXCEPT ![a].stage = "rejected",
                                         ![a].waiters = << >>]
         /\ mq' = Tail(mq) \o WaiterJobs(a, attempts[a].waiters)
         /\ UNCHANGED storeVars

\* A closure that assigns pgPool when the pool is constructed, before its
\* probe query.
pgInitBodyPoolBeforeProbe(a, ok) ==
    LET st == attempts[a].stage IN
    IF st = "neon" /\ ok
    THEN /\ attempts' = [attempts EXCEPT ![a].stage = "neonProbe",
                                         ![a].queued = FALSE,
                                         ![a].neon = "probing"]
         /\ mq' = Tail(mq)
         /\ UNCHANGED storeVars
    ELSE IF st = "pg" /\ ok
    THEN /\ pgPool' = a
         /\ attempts' = [attempts EXCEPT ![a].stage = "pgProbe",
                                         ![a].queued = FALSE,
                                         ![a].pg = "probing"]
         /\ mq' = Tail(mq)
         /\ UNCHANGED <<sqliteDb, sqliteInitPromise, pgInitPromise>>
    ELSE IF ok
    THEN /\ pgPool' = a
         /\ attempts' =
               [attempts EXCEPT
                   ![a].stage = "resolved",
                   ![a].waiters = << >>,
                   ![a].neon = IF st = "neonProbe" THEN "ok" ELSE @,
                   ![a].pg = IF st = "pgProbe" THEN "ok" ELSE @]
         /\ mq' = Tail(mq) \o WaiterJobs(a, attempts[a].waiters)
         /\ UNCHANGED <<sqliteDb, sqliteInitPromise, pgInitPromise>>
    ELSE IF st \in {"neon", "neonProbe"}
    THEN /\ attempts' = [attempts EXCEPT ![a].stage = "pg",
                                         ![a].queued = FALSE,
                                         ![a].neon = "failed",
                                         ![a].pg = "loading"]
         /\ mq' = Tail(mq)
         /\ UNCHANGED storeVars
    ELSE /\ attempts' = [attempts EXCEPT ![a].stage = "rejected",
                                         ![a].waiters = << >>,
                                         ![a].pg = "failed"]
         /\ mq' = Tail(mq) \o WaiterJobs(a, attempts[a].waiters)
         /\ UNCHANGED storeVars

\* The closure of ensurePostgres resumes from the await it is suspended at,
\* inside createNeonQueryAdapter or createPgPool: the import of a driver
\* (stages "neon", "pg") or the probe query `SELECT 1` of the client made
\* from it (stages "neonProbe", "pgProbe").  A driver that loads without
\* the expected interface throws like a failed import.
pgInitBody(a, ok) ==
    LET st == attempts[a].stage IN
    IF st = "neon" /\ ok
    THEN \* neonFactory(connectionString); await adapter.query('SELECT 1')
         /\ attempts' = [attempts EXCEPT ![a].stage = "neonProbe",
                                         ![a].queued = FALSE,
                                         ![a].neon = "probing"]
         /\ mq' = Tail(mq)
         /\ UNCHANGED storeVars
    ELSE IF st = "pg" /\ ok
    THEN \* new PoolConstructor(...); await pool.query('SELECT 1')
         /\ attempts' = [attempts EXCEPT ![a].stage = "pgProbe",
                                         ![a].queued = FALSE,
                                         ![a].pg = "probing"]
         /\ mq' = Tail(mq)
         /\ UNCHANGED storeVars
    ELSE IF ok
    THEN \* return adapter / return pool; pgPool = pool; return pool
         /\ pgPool' = a
         /\ attempts' =
               [attempts EXCEPT
                   ![a].stage = "resolved",
                   ![a].waiters = << >>,
                   ![a].neon = IF st = "neonProbe" THEN "ok" ELSE @,
                   ![a].pg = IF st = "pgProbe" THEN "ok" ELSE @]
         /\ mq' = Tail(mq) \o WaiterJobs(a, attempts[a].waiters)
         /\ UNCHANGED <<sqliteDb, sqliteInitPromise, pgInitPromise>>
    ELSE IF st \in {"neon", "neonProbe"}
    THEN \* catch (neonError): warn, then await createPgPool(databaseUrl),
         \* which runs up to its import of pg
         /\ attempts' = [attempts EXCEPT ![a].stage = "pg",
                                         ![a].queued = FALSE,
                                         ![a].neon = "failed",
                                         ![a].pg = "loading"]
         /\ mq' = Tail(mq)
         /\ UNCHANGED storeVars
    ELSE \* createPgPool throws: the closure throws, the promise rejects
         /\ attempts' = [attempts EXCEPT ![a].stage = "rejected",
                                         ![a].waiters = << >>,
                                         ![a].pg = "failed"]
         /\ mq' = Tail(mq) \o WaiterJobs(a, attempts[a].waiters)
         /\ UNCHANGED storeVars

\* The job that continues the closure of attempt a runs; ok is how the
\* operation it awaited had settled.
InitCont(a, ok) ==
    /\ mq # << >>
    /\ Head(mq) = Job("init", 0, a)
    /\ IF attempts[a].store = "pg" THEN pgInitBody(a, ok)
       ELSE sqliteInitBody(a, ok)
    /\ response' = NoResponse
    /\ UNCHANGED <<config, pageVars, scoreVars, dataVars, req>>

\* Mutant of sqliteCatch: the rejected promise stays cached.
sqliteCatchKeepsPromise ==
    /\ sqliteDb' = 0
    /\ UNCHANGED <<sqliteInitPromise, pgPool, pgInitPromise>>

\* catch (error) { sqliteInitPromise = null; sqliteDb = null; throw error; }
sqliteCatch ==
    /\ sqliteInitPromise' = 0
    /\ sqliteDb' = 0
    /\ UNCHANGED <<pgPool, pgInitPromise>>

\* catch (error) { pgInitPromise = null; pgPool = null; throw error; }
pgCatch ==
    /\ pgInitPromise' = 0
    /\ pgPool' = 0
    /\ UNCHANGED <<sqliteDb, sqliteInitPromise>>

\* Request r resumes from `await sqliteInitPromise` / `await pgInitPromise`:
\* with the handle, which ensure* returns to the read operation, or with
\* the rejection, which ensure* handles in its catch block and rethrows.
WaiterResume(r) ==
    /\ mq # << >>
    /\ Head(mq).k = "waiter"
    /\ Head(mq).r = r
    /\ mq' = Tail(mq)
    /\ LET a == Head(mq).a IN
       IF attempts[a].stage = "resolved"
       THEN /\ fetchResume(r, [req[r] EXCEPT !.db = a], TRUE)
            /\ UNCHANGED <<storeVars, attempts>>
       ELSE /\ IF attempts[a].store = "pg" THEN pgCatch ELSE sqliteCatch
            /\ attempts' = [attempts EXCEPT ![a].handled = TRUE]
            /\ fetchResume(r, req[r], FALSE)
    /\ UNCHANGED <<config, pageVars, scoreVars, dataVars>>

\* Mutant of SelectStore: the test of usePostgres is inverted.
SelectStoreInverted == IF usePostgres THEN "sqlite" ELSE "pg"

\* if (usePostgres) { ... ensurePostgres() ... } ... ensureSqlite() ...
SelectStore == IF usePostgres THEN "pg" ELSE "sqlite"

\* fetchCountriesFromDatabase / fetchPartiesFromDatabase /
\* fetchPartyPoliciesFromDatabase, from the call to the first suspension.
fetchFromDatabase(r, q) ==
    IF SelectStore = "pg" THEN ensurePostgres(r, q) ELSE ensureSqlite(r, q)

\* if (req.method && req.method !== 'GET')
MethodRejected(m) == m # "" /\ m # "GET"

\* The query parameter an endpoint requires: country, partyId, or none
\* (the countries handler checks none).
ParamRequired(ep) == ep # "countries"

\* Mutant of ParamRejected: the parameter check is missing.
ParamNeverRejected(ep, p) == FALSE

\* if (!country) / if (!partyId)
ParamRejected(ep, p) == ParamRequired(ep) /\ p # "present"

\* A handler that checks the parameter before the method.
handlerParamFirst(r, ep, m, p) ==
    /\ mq # << >>
    /\ Head(mq) = Job("call", r, 0)
    /\ LET q == [req[r] EXCEPT !.caller = "handler", !.ep = ep,
                               !.method = m, !.param = p] IN
       IF ParamRejected(ep, p)
       THEN /\ Send(r, q, FALSE, "none", 400, "error")
            /\ mq' = Tail(mq)
            /\ UNCHANGED <<storeVars, attempts>>
       ELSE IF MethodRejected(m)
       THEN /\ Send(r, q, FALSE, "none", 405, "error")
            /\ mq' = Tail(mq)
            /\ UNCHANGED <<storeVars, attempts>>
       ELSE fetchFromDatabase(r, q)
    /\ UNCHANGED <<config, pageVars, scoreVars, dataVars>>

\* handler(req, res) of endpoint ep, called for request r with method m and
\* the required query parameter present or missing (p), from the call to
\* the first suspension.
handler(r, ep, m, p) ==
    /\ mq # << >>
    /\ Head(mq) = Job("call", r, 0)
    /\ LET q == [req[r] EXCEPT !.caller = "handler", !.ep = ep,
                               !.method = m, !.param = p] IN
       IF MethodRejected(m)
       THEN /\ Send(r, q, FALSE, "none", 405, "error")
            /\ mq' = Tail(mq)
            /\ UNCHANGED <<storeVars, attempts>>
       ELSE IF ParamRejected(ep, p)
       THEN /\ Send(r, q, FALSE, "none", 400, "error")
            /\ mq' = Tail(mq)
            /\ UNCHANGED <<storeVars, attempts>>
       ELSE fetchFromDatabase(r, q)
    /\ UNCHANGED <<config, pageVars, scoreVars, dataVars>>

\* ---------------------------------------------------- the browser service
\* A fetchFromApi that parses the body whatever the status.
apiDataIgnoresStatus(o) ==
    IF o \in {"throw", "badJson"} THEN "null"
    ELSE IF o \in {"array", "notOk"} THEN "apiRows"
    ELSE IF o = "emptyArray" THEN "apiEmpty"
    ELSE "null"

\* fetchFromApi after `await fetch(path)`: null when the request threw, when
\* the status is not a success and when response.json() throws; else the
\* parsed body.
apiData(o) ==
    IF o \in {"throw", "notOk", "badJson"} THEN "null"
    ELSE IF o = "array" THEN "apiRows"
    ELSE IF o = "emptyArray" THEN "apiEmpty"
    ELSE "null"

\* A test that takes the empty array for no data.
TruthyNonEmpty(d) == d \notin {"null", "apiEmpty"}

\* if (apiData): an array, empty or not, is truthy; null is not.
Truthy(d) == d # "null"

\* fetchCountriesFallback / fetchPartiesFallback /
\* fetchPartyPoliciesFallback, from the call to the first suspension: the
\* SQLite path of the read operations, on the browser module's own sqliteDb
\* and sqliteInitPromise.
fetchFallback(r, q) == ensureSqlite(r, q)

\* fetchCountries / fetchParties / fetchPartyPolicies of the browser
\* service (operation ep), from the call to the first suspension:
\* fetchFromApi returns null outside a browser, else it awaits fetch(path).
fetchApp(r, ep) ==
    /\ mq # << >>
    /\ Head(mq) = Job("call", r, 0)
    /\ LET q == [req[r] EXCEPT !.caller = "browser", !.ep = ep] IN
       IF ~isBrowserEnvironment
       THEN fetchFallback(r, [q EXCEPT !.api = "skipped"])
       ELSE /\ req' = [req EXCEPT ![r] = [q EXCEPT !.pc = "waitApi"]]
            /\ mq' = Tail(mq)
            /\ response' = NoResponse
            /\ UNCHANGED <<storeVars, attempts>>
    /\ UNCHANGED <<config, pageVars, scoreVars, dataVars>>

\* The HTTP request of request r settles: fetchFromApi's continuation is
\* queued.
ApiSettle(r) ==
    /\ req[r].pc = "waitApi"
    /\ req' = [req EXCEPT ![r].pc = "apiQueued"]
    /\ mq' = Append(mq, Job("api", r, 0))
    /\ response' = NoResponse
    /\ UNCHANGED <<config, pageVars, scoreVars, dataVars, storeVars, attempts>>

\* fetchFromApi resumes with outcome o and returns; the read operation
\* returns the API's data if (apiData), else it calls the fallback.
ApiResume(r, o) ==
    /\ mq # << >>
    /\ Head(mq) = Job("api", r, 0)
    /\ LET q == [req[r] EXCEPT !.api = o] IN
       IF Truthy(apiData(o))
       THEN /\ browserReturn(r, q, FALSE, "none", apiData(o))
            /\ mq' = Tail(mq)
            /\ UNCHANGED <<storeVars, attempts>>
       ELSE fetchFallback(r, q)
    /\ UNCHANGED <<config, pageVars, scoreVars, dataVars>>

\* ------------------------------------------- the embedded-only service
\* The data service of the browser build that reads the bundled database
\* alone.  Its module variables db and initPromise are sqliteDb and
\* sqliteInitPromise here; the closure of an attempt (initSqlJs, the fetch of
\* /data.db, arrayBuffer, new SQL.Database) is an attempt of store "sqlite",
\* which settles by Settle and InitCont.

\* initDatabase(), called by the read operation of request r, to its first
\* suspension: if (db) return; if (initPromise) { await initPromise;
\* return; } initPromise = (async () => {...})(); await initPromise.
initDatabase(r, q0) ==
    LET q == [q0 EXCEPT !.store = "sqlite", !.touched = @ \cup {"sqlite"}] IN
    IF sqliteDb # 0
    THEN /\ fetchResume(r, [q EXCEPT !.db = sqliteDb], TRUE)
         /\ mq' = Tail(mq)
         /\ UNCHANGED <<storeVars, attempts>>
    ELSE LET fresh == sqliteInitPromise = 0
             a     == IF fresh THEN Len(attempts) + 1 ELSE sqliteInitPromise
             atts  == IF fresh THEN Append(attempts, NewAttempt("sqlite"))
                      ELSE attempts
         IN  /\ sqliteInitPromise' = a
             /\ AwaitAttempt(r, q, a, atts)
             /\ UNCHANGED <<sqliteDb, pgPool, pgInitPromise>>

\* fetchCountries / fetchParties / fetchPartyPolicies of the embedded-only
\* service (operation ep), from the call to the first suspension:
\* await initDatabase(), before the try block.
fetchEmbedded(r, ep) ==
    /\ mq # << >>
    /\ Head(mq) = Job("call", r, 0)
    /\ initDatabase(r, [req[r] EXCEPT !.caller = "embedded", !.ep = ep])
    /\ UNCHANGED <<config, pageVars, scoreVars, dataVars>>

\* Request r resumes from `await initPromise` in initDatabase: on success
\* initDatabase returns and the read operation runs its query inside its
\* try block; on failure initDatabase rejects, and so does the read
\* operation, whose await of it stands before the try block.  No module
\* variable is written.
initDatabaseResume(r) ==
    /\ mq # << >>
    /\ Head(mq).k = "waiter"
    /\ Head(mq).r = r
    /\ mq' = Tail(mq)
    /\ LET a == Head(mq).a IN
       IF attempts[a].stage = "resolved"
       THEN /\ fetchResume(r, [req[r] EXCEPT !.db = a], TRUE)
            /\ UNCHANGED attempts
       ELSE /\ attempts' = [attempts EXCEPT ![a].handled = TRUE]
            /\ fetchReturn(r, req[r], TRUE, "rejected")
    /\ UNCHANGED <<config, pageVars, scoreVars, dataVars, storeVars>>

\* ------------------------------------------------------- the classifier
Abs(x) == IF x < 0 THEN -x ELSE x

\* A determineIdeology that tests the two bands before the four quadrants.
determineIdeologyBandsFirst(e, p) ==
    IF Abs(e) < 1 * Scale /\ Abs(p) < 1 * Scale THEN "centrist"
    ELSE IF e < -3 * Scale THEN "socialist"
    ELSE IF p > 3 * Scale THEN "green"
    ELSE IF e < -2 * Scale /\ p > 2 * Scale THEN "liberal"
    ELSE IF e > 2 * Scale /\ p < -2 * Scale THEN "conservative"
    ELSE IF e > 2 * Scale /\ p > 2 * Scale THEN "libertarian"
    ELSE IF e < -2 * Scale /\ p < -2 * Scale THEN "authoritarian"
    ELSE "centrist"

\* A determineIdeology that tests the socialist band before the
\* authoritarian quadrant.
determineIdeologySocialistEarly(e, p) ==
    IF Abs(e) < 1 * Scale /\ Abs(p) < 1 * Scale THEN "centrist"
    ELSE IF e < -2 * Scale /\ p > 2 * Scale THEN "liberal"
    ELSE IF e > 2 * Scale /\ p < -2 * Scale THEN "conservative"
    ELSE IF e > 2 * Scale /\ p > 2 * Scale THEN "libertarian"
    ELSE IF e < -3 * Scale THEN "socialist"
    ELSE IF e < -2 * Scale /\ p < -2 * Scale THEN "authoritarian"
    ELSE IF p > 3 * Scale THEN "green"
    ELSE "centrist"

\* A determineIdeology whose comparisons include the threshold.
determineIdeologyInclusive(e, p) ==
    IF Abs(e) <= 1 * Scale /\ Abs(p) <= 1 * Scale THEN "centrist"
    ELSE IF e <= -2 * Scale /\ p >= 2 * Scale THEN "liberal"
    ELSE IF e >= 2 * Scale /\ p <= -2 * Scale THEN "conservative"
    ELSE IF e >= 2 * Scale /\ p >= 2 * Scale THEN "libertarian"
    ELSE IF e <= -2 * Scale /\ p <= -2 * Scale THEN "authoritarian"
    ELSE IF e <= -3 * Scale THEN "socialist"
    ELSE IF p >= 3 * Scale THEN "green"
    ELSE "centrist"

\* determineIdeology(leftRight, authLib): a chain of if statements, each
\* returning a label.
determineIdeology(e, p) ==
    IF Abs(e) < 1 * Scale /\ Abs(p) < 1 * Scale THEN "centrist"
    ELSE IF e < -2 * Scale /\ p > 2 * Scale THEN "liberal"
    ELSE IF e > 2 * Scale /\ p < -2 * Scale THEN "conservative"
    ELSE IF e > 2 * Scale /\ p > 2 * Scale THEN "libertarian"
    ELSE IF e < -2 * Scale /\ p < -2 * Scale THEN "authoritarian"
    ELSE IF e < -3 * Scale THEN "socialist"
    ELSE IF p > 3 * Scale THEN "green"
    ELSE "centrist"

\* transformDBPartyToAppParty's call of determineIdeology on a party's two
\* scores.
Classify ==
    /\ ideology = "none"
    /\ ideology' = determineIdeology(leftRight, authLib)
    /\ UNCHANGED <<config, pageVars, storeVars, attempts, req, mq, response,
                   leftRight, authLib, dataVars>>

\* ------------------------------------------------------ the row mapping
\* Number(value), also the conversion Math.abs and the relational operators
\* apply to an operand: null and the empty text give 0, numeric text its
\* number, other text and undefined NaN.
Number(value) ==
    IF value.t = "number" THEN value
    ELSE IF value.t = "numtext" THEN Num(value.v)
    ELSE IF value.t \in {"null", "emptytext"} THEN Num(0)
    ELSE NaN

\* A toNullableNumber that returns the value as it came.
toNullableNumberCast(value) == value

toNullableNumber(value) ==
    IF value.t \in {"null", "undefined"} THEN Null
    ELSE IF value.t \in {"number", "nan"}
    THEN IF value.t = "nan" THEN Null ELSE value
    ELSE LET parsed == Number(value) IN
         IF parsed.t = "nan" THEN Null ELSE parsed

\* a ?? b
Coalesce(a, b) == IF a.t \in {"null", "undefined"} THEN b ELSE a

\* determineIdeology called with values that need not be numbers: each
\* operand is converted and every comparison with NaN is false, so that the
\* five tests on both scores fail when either is NaN.
determineIdeologyCoerced(a, b) ==
    LET e == Number(a)
        p == Number(b)
    IN  IF e.t = "number" /\ p.t = "number" THEN determineIdeology(e.v, p.v)
        ELSE IF e.t = "number" /\ e.v < -3 * Scale THEN "socialist"
        ELSE IF p.t = "number" /\ p.v > 3 * Scale THEN "green"
        ELSE "centrist"

\* The index of the first space of s, 0 when it has none.
IndexOfSpace(s) ==
    IF \E i \in 1..Len(s) : s[i] = " "
    THEN CHOOSE i \in 1..Len(s) :
             s[i] = " " /\ \A j \in 1..(i - 1) : s[j] # " "
    ELSE 0

\* s.split(' ')
RECURSIVE Split(_)
Split(s) ==
    LET i == IndexOfSpace(s) IN
    IF i = 0 THEN <<s>>
    ELSE <<SubSeq(s, 1, i - 1)>> \o Split(SubSeq(s, i + 1, Len(s)))

\* words.join(' ')
RECURSIVE Join(_)
Join(words) ==
    IF words = << >> THEN << >>
    ELSE IF Len(words) = 1 THEN words[1]
    ELSE words[1] \o <<" ">> \o Join(Tail(words))

\* words.slice(0, 2)
SliceTwo(words) == SubSeq(words, 1, IF Len(words) < 2 THEN Len(words) ELSE 2)

\* A short name split on runs of spaces, as split(/ +/) would.
shortNameOfRuns(n) ==
    LET nameWords == SelectSeq(Split(n), LAMBDA w : w # << >>) IN
    IF Len(nameWords) > 2 THEN nameWords[1] ELSE Join(SliceTwo(nameWords))

\* A short name that is always the first two words.
shortNameOfFirstTwo(n) == Join(SliceTwo(Split(n)))

\* transformDBPartyToAppParty's shortName for the name n.
shortNameOf(n) ==
    LET nameWords == Split(n) IN
    IF Len(nameWords) > 2 THEN nameWords[1] ELSE Join(SliceTwo(nameWords))

\* transformDBPartyToAppParty derives the short name of name.
Shorten ==
    /\ ~shortName.done
    /\ shortName' = [done |-> TRUE, text |-> shortNameOf(name)]
    /\ UNCHANGED <<config, pageVars, storeVars, attempts, req, mq, response,
                   scoreVars,
                   table, arg, out, name>>

\* A transformDBPartyToAppParty that returns the scores as stored and
\* replaces null by 0 for the classification only.
transformKeepsNull(dbParty) ==
    [id |-> dbParty.id,
     name |-> dbParty.name,
     econFreedom |-> dbParty.econ_freedom,
     personalFreedom |-> dbParty.personal_freedom,
     ideology |-> determineIdeologyCoerced(
                      Coalesce(dbParty.econ_freedom, Num(0)),
                      Coalesce(dbParty.personal_freedom, Num(0))),
     founded |-> Coalesce(dbParty.founded, Undefined)]

\* transformDBPartyToAppParty, without the short name (see shortNameOf): in
\* a table a party's name stands for its rank in the ORDER BY collation.
transformDBPartyToAppParty(dbParty) ==
    LET econFreedom == Coalesce(dbParty.econ_freedom, Num(0))
        personalFreedom == Coalesce(dbParty.personal_freedom, Num(0))
    IN  [id |-> dbParty.id,
         name |-> dbParty.name,
         econFreedom |-> econFreedom,
         personalFreedom |-> personalFreedom,
         ideology |-> determineIdeologyCoerced(econFreedom, personalFreedom),
         founded |-> Coalesce(dbParty.founded, Undefined)]

\* The sequences that hold each row of table with its index in I once, in
\* nondecreasing order of key: what a query with ORDER BY may return.
Ordered(I, key) ==
    {q \in [1..Cardinality(I) -> I] :
        /\ \A i, j \in 1..Cardinality(I) : i # j => q[i] # q[j]
        /\ \A i, j \in 1..Cardinality(I) :
              i < j => key[q[i]] <= key[q[j]]}

PartyName(row) == row.name

\* The place of a country in the ORDER BY collation.
CountryRank(row) ==
    IF row.country = "" THEN 0
    ELSE IF row.country = "Germany" THEN 1
    ELSE IF row.country = "Italy" THEN 2
    ELSE 3

\* SELECT DISTINCT country FROM parties ORDER BY country
QueryCountries ==
    LET I == {i \in 1..Len(table) :
                 \A j \in 1..(i - 1) : table[j].country # table[i].country} IN
    {[k \in 1..Len(q) |-> table[q[k]].country] :
        q \in Ordered(I, [i \in I |-> CountryRank(table[i])])}

\* COUNTRY_FLAGS[name]
CountryFlag(c) == IF c \in CountryCodes THEN "flag of " \o c ELSE "undefined"

\* A mapping that drops the countries COUNTRY_FLAGS has no entry for.
countriesFromFlaggedOnly(names) ==
    LET kept == SelectSeq(names, LAMBDA c : c \in CountryCodes) IN
    [k \in 1..Len(kept) |->
        [code |-> kept[k], name |-> kept[k], flag |-> "flag of " \o kept[k]]]

\* rows.map(...).filter(name => typeof name === 'string' && name.length > 0)
\*     .map(name => ({ code: name, name, flag: COUNTRY_FLAGS[name] }))
countriesFrom(names) ==
    LET kept == SelectSeq(names, LAMBDA c : c # "") IN
    [k \in 1..Len(kept) |->
        [code |-> kept[k], name |-> kept[k], flag |-> CountryFlag(kept[k])]]

\* fetchCountriesFromDatabase() on path p, from the query on.
fetchCountriesFromDatabase(p) ==
    /\ arg = "none"
    /\ ~out[p].done
    /\ \E names \in QueryCountries :
          out' = [out EXCEPT ![p] =
                     [done |-> TRUE, rows |-> countriesFrom(names)]]
    /\ UNCHANGED <<config, pageVars, storeVars, attempts, req, mq, response,
                   scoreVars,
                   table, arg, name, shortName>>

\* A query without the condition on country.
QueryPartiesAnyCountry ==
    LET I == 1..Len(table) IN
    {[k \in 1..Len(q) |-> table[q[k]]] :
        q \in Ordered(I, [i \in I |-> PartyName(table[i])])}

\* SELECT ... FROM parties WHERE country = ? ORDER BY name
QueryParties ==
    LET I == {i \in 1..Len(table) : table[i].country = arg} IN
    {[k \in 1..Len(q) |-> table[q[k]]] :
        q \in Ordered(I, [i \in I |-> PartyName(table[i])])}

\* The row mapping of fetchPartiesFromDatabase on the Postgres path.
partyFromPg(row) ==
    transformDBPartyToAppParty(
        [id |-> row.id, name |-> row.name, country |-> row.country,
         founded |-> toNullableNumber(row.founded),
         econ_freedom |-> toNullableNumber(row.econ_freedom),
         personal_freedom |-> toNullableNumber(row.personal_freedom)])

\* The row mapping of fetchPartiesFromDatabase on the SQLite path: the
\* columns are cast, not converted.
partyFromSqlite(row) ==
    transformDBPartyToAppParty(
        [id |-> row.id, name |-> row.name, country |-> row.country,
         founded |-> row.founded,
         econ_freedom |-> row.econ_freedom,
         personal_freedom |-> row.personal_freedom])

partyFrom(p, row) == IF p = "pg" THEN partyFromPg(row) ELSE partyFromSqlite(row)

\* fetchPartiesFromDatabase(arg) on path p, from the query on: the rows the
\* store returns, mapped in their order.
fetchPartiesFromDatabase(p) ==
    /\ arg \in CountryCodes
    /\ ~out[p].done
    /\ \E rows \in QueryParties :
          out' = [out EXCEPT ![p] =
                     [done |-> TRUE,
                      rows |-> [k \in 1..Len(rows) |-> partyFrom(p, rows[k])]]]
    /\ UNCHANGED <<config, pageVars, storeVars, attempts, req, mq, response,
                   scoreVars,
                   table, arg, name, shortName>>

\* !value, for a text value: null and the empty text are falsy.
Not(value) == value.t = "null" \/ value.s = ""

\* JSON.parse(s) of the category texts that occur: the array parsed, or that
\* the text parses to something else, or that JSON.parse throws.
JSONParse(s) ==
    IF s = "[\"tax\",\"health\"]"
    THEN [kind |-> "array", value |-> <<"tax", "health">>]
    ELSE IF s = "[]" THEN [kind |-> "array", value |-> << >>]
    ELSE IF s \in {"{\"a\":1}", "null", "7"}
    THEN [kind |-> "other", value |-> << >>]
    ELSE [kind |-> "throw", value |-> << >>]

\* let categories = []; if (categoryJson) { try { parsed = JSON.parse(...);
\* categories = Array.isArray(parsed) ? parsed : [] } catch { } }
categoriesOf(categoryJson) ==
    IF Not(categoryJson) THEN << >>
    ELSE LET parsed == JSONParse(categoryJson.s) IN
         IF parsed.kind = "array" THEN parsed.value ELSE << >>

\* An impact restricted to the three literals.
impactOfLiterals(impact) ==
    IF impact.t = "text" /\ impact.s \in {"high", "medium", "low"}
    THEN impact.s ELSE "medium"

\* (impact as 'high' | 'medium' | 'low') || 'medium'
impactOf(impact) == IF Not(impact) THEN "medium" ELSE impact.s

\* explanation || impactExplanation || ''
explanationOf(explanation, impactExplanation) ==
    IF ~Not(explanation) THEN explanation.s
    ELSE IF ~Not(impactExplanation) THEN impactExplanation.s
    ELSE ""

\* A loop that skips only the rows without policy text.
skippedIfNoPolicy(row) == Not(row.policy)

\* if (!policyText || !shortName) continue
skipped(row) == Not(row.policy) \/ Not(row.short_name)

\* The entry pushed for a row on path p; row is the stored row it is made
\* from, kept for the properties.
policyFrom(p, row) ==
    [row |-> row.id,
     policyText |-> row.policy.s,
     shortName |-> row.short_name.s,
     impact |-> impactOf(row.impact),
     categories |-> categoriesOf(row.category),
     explanation |-> explanationOf(row.explanation, row.impact_explanation),
     econFreedom |-> IF p = "pg" THEN toNullableNumber(row.econ_freedom)
                     ELSE row.econ_freedom,
     personalFreedom |-> IF p = "pg"
                         THEN toNullableNumber(row.personal_freedom)
                         ELSE row.personal_freedom]

\* A loop without the inner try: a category JSON.parse cannot parse throws
\* to the catch of the read operation, which returns [].
RECURSIVE policiesFromNoCatch(_, _)
policiesFromNoCatch(p, rows) ==
    IF \E k \in 1..Len(rows) :
           /\ ~skipped(rows[k])
           /\ ~Not(rows[k].category)
           /\ JSONParse(rows[k].category.s).kind = "throw"
    THEN << >>
    ELSE IF rows = << >> THEN << >>
    ELSE (IF skipped(Head(rows)) THEN << >>
          ELSE <<policyFrom(p, Head(rows))>>)
             \o policiesFromNoCatch(p, Tail(rows))

\* for (const row of rows) { ...; if (...) continue; ...; policies.push(...) }
RECURSIVE policiesFrom(_, _)
policiesFrom(p, rows) ==
    IF rows = << >> THEN << >>
    ELSE (IF skipped(Head(rows)) THEN << >>
          ELSE <<policyFrom(p, Head(rows))>>)
             \o policiesFrom(p, Tail(rows))

\* A sort key that ignores chunk_index.
PolicyKeyById(row) == row.policy_id

\* ORDER BY chunk_index, policy_id, with policy ids below 10.
PolicyKey(row) == row.chunk_index * 10 + row.policy_id

\* A query without the condition on error.
QueryPoliciesAnyError ==
    LET I == {i \in 1..Len(table) :
                 table[i].party_id = arg /\ table[i].policy.t # "null"} IN
    {[k \in 1..Len(q) |-> table[q[k]]] :
        q \in Ordered(I, [i \in I |-> PolicyKey(table[i])])}

\* SELECT ... FROM llm_responses WHERE party_id = ? AND policy IS NOT NULL
\* AND error IS NULL ORDER BY chunk_index, policy_id
QueryPolicies ==
    LET I == {i \in 1..Len(table) :
                 /\ table[i].party_id = arg
                 /\ table[i].policy.t # "null"
                 /\ table[i].error.t = "null"} IN
    {[k \in 1..Len(q) |-> table[q[k]]] :
        q \in Ordered(I, [i \in I |-> PolicyKey(table[i])])}

\* fetchPartyPoliciesFromDatabase(arg) on path p, from the query on.
fetchPartyPoliciesFromDatabase(p) ==
    /\ arg \in PartyIds
    /\ ~out[p].done
    /\ \E rows \in QueryPolicies :
          out' = [out EXCEPT ![p] =
                     [done |-> TRUE, rows |-> policiesFrom(p, rows)]]
    /\ UNCHANGED <<config, pageVars, storeVars, attempts, req, mq, response,
                   scoreVars,
                   table, arg, name, shortName>>

\* ------------------------------------------------------ the Index page
\* The event handlers of the Index page.  The state updates of one handler
\* are applied together.

\* A handler that leaves the drawer as it is.
handleCountrySelectKeepsDrawer(countries) ==
    /\ selectedCountries' = countries
    /\ selectedParty' = "null"
    /\ UNCHANGED <<isDrawerOpen, visibleIdeologies>>
    /\ UNCHANGED <<config, storeVars, attempts, req, mq, response,
                   scoreVars, dataVars>>

\* handleCountrySelect = (countries) => { setSelectedCountries(countries);
\* setSelectedParty(null); setIsDrawerOpen(false); }
handleCountrySelect(countries) ==
    /\ selectedCountries' = countries
    /\ selectedParty' = "null"
    /\ isDrawerOpen' = FALSE
    /\ UNCHANGED visibleIdeologies
    /\ UNCHANGED <<config, storeVars, attempts, req, mq, response,
                   scoreVars, dataVars>>

\* handlePartyClick = (party) => { setSelectedParty(party);
\* setIsDrawerOpen(true); }
handlePartyClick(party) ==
    /\ selectedParty' = party
    /\ isDrawerOpen' = TRUE
    /\ UNCHANGED <<selectedCountries, visibleIdeologies>>
    /\ UNCHANGED <<config, storeVars, attempts, req, mq, response,
                   scoreVars, dataVars>>

\* onClose={() => { setIsDrawerOpen(false); setSelectedParty(null); }}
onClose ==
    /\ isDrawerOpen' = FALSE
    /\ selectedParty' = "null"
    /\ UNCHANGED <<selectedCountries, visibleIdeologies>>
    /\ UNCHANGED <<config, storeVars, attempts, req, mq, response,
                   scoreVars, dataVars>>

\* handleToggleIdeology = (ideology) => setVisibleIdeologies(prev => ...)
handleToggleIdeology(i) ==
    /\ visibleIdeologies' = IF i \in visibleIdeologies
                            THEN visibleIdeologies \ {i}
                            ELSE visibleIdeologies \cup {i}
    /\ UNCHANGED <<selectedCountries, selectedParty, isDrawerOpen>>
    /\ UNCHANGED <<config, storeVars, attempts, req, mq, response,
                   scoreVars, dataVars>>

\* The arrays the country selector hands to onCountrySelect: countries of
\* the list, each at most once.
CountryLists ==
    LET C == StoredCountries \ {""} IN
    UNION {{q \in [1..n -> C] : \A i, j \in 1..n : i # j => q[i] # q[j]} :
           n \in 0..Cardinality(C)}

\* The Index page alone: no data service state.
InitIndex ==
    /\ usePostgres = FALSE
    /\ isBrowserEnvironment = TRUE
    /\ sqliteDb = 0
    /\ sqliteInitPromise = 0
    /\ pgPool = 0
    /\ pgInitPromise = 0
    /\ attempts = << >>
    /\ req = [r \in Reqs |-> NoReq]
    /\ mq = << >>
    /\ response = NoResponse
    /\ leftRight = 0
    /\ authLib = 0
    /\ ideology = "none"
    /\ table = << >>
    /\ arg = "none"
    /\ out = NoOut
    /\ name = << >>
    /\ shortName = NoShortName
    /\ InitPage

NextIndex ==
    \/ \E c \in CountryLists : handleCountrySelect(c)
    \/ \E party \in PartyIds : handlePartyClick(party)
    \/ onClose
    \/ \E i \in Ideologies : handleToggleIdeology(i)

SpecIndex == InitIndex /\ [][NextIndex]_vars

\* ------------------------------------------------------ the specification
Next ==
    \/ \E r \in Reqs : Schedule(r)
    \/ \E r \in Reqs, x \in Requests : handler(r, x[1], x[2], x[3])
    \/ \E a \in Reqs : Settle(a)
    \/ \E a \in Reqs, ok \in BOOLEAN : InitCont(a, ok)
    \/ \E r \in Reqs : WaiterResume(r)
    \/ \E r \in Reqs, o \in QueryOutcomes : QuerySettle(r, o)

Spec == Init /\ [][Next]_vars

\* The server with the requests of Calls, for progress: the event loop runs
\* every job it has queued, and every external operation awaited (the steps
\* of an initialization attempt, a query) settles.  No request has to
\* arrive.
NextLive ==
    \/ \E r \in Calls : Schedule(r)
    \/ \E r \in Calls, x \in Requests : handler(r, x[1], x[2], x[3])
    \/ \E a \in Calls : Settle(a)
    \/ \E a \in Calls, ok \in BOOLEAN : InitCont(a, ok)
    \/ \E r \in Calls : WaiterResume(r)
    \/ \E r \in Calls, o \in QueryOutcomes : QuerySettle(r, o)

FairLive ==
    \A r \in Calls :
        /\ WF_vars(\E x \in Requests : handler(r, x[1], x[2], x[3]))
        /\ WF_vars(Settle(r))
        /\ WF_vars(\E ok \in BOOLEAN : InitCont(r, ok))
        /\ WF_vars(WaiterResume(r))
        /\ WF_vars(\E o \in QueryOutcomes : QuerySettle(r, o))

SpecLive == Init /\ [][NextLive]_vars /\ FairLive

\* The browser-hosted data service: no connection string, and the module
\* loaded in a browser or (server-side rendering) outside one.
InitBrowser ==
    /\ usePostgres = FALSE
    /\ isBrowserEnvironment \in BOOLEAN
    /\ sqliteDb = 0
    /\ sqliteInitPromise = 0
    /\ pgPool = 0
    /\ pgInitPromise = 0
    /\ attempts = << >>
    /\ req = [r \in Reqs |-> NoReq]
    /\ mq = << >>
    /\ response = NoResponse
    /\ leftRight = 0
    /\ authLib = 0
    /\ ideology = "none"
    /\ table = << >>
    /\ arg = "none"
    /\ out = NoOut
    /\ name = << >>
    /\ shortName = NoShortName
    /\ InitPage

NextBrowser ==
    \/ \E r \in Calls : Schedule(r)
    \/ \E r \in Calls, ep \in Endpoints : fetchApp(r, ep)
    \/ \E r \in Calls : ApiSettle(r)
    \/ \E r \in Calls, o \in ApiOutcomes : ApiResume(r, o)
    \/ \E a \in Calls : Settle(a)
    \/ \E a \in Calls, ok \in BOOLEAN : InitCont(a, ok)
    \/ \E r \in Calls : WaiterResume(r)

SpecBrowser == InitBrowser /\ [][NextBrowser]_vars

\* The embedded-only data service, loaded in a browser.
InitEmbedded ==
    /\ usePostgres = FALSE
    /\ isBrowserEnvironment = TRUE
    /\ sqliteDb = 0
    /\ sqliteInitPromise = 0
    /\ pgPool = 0
    /\ pgInitPromise = 0
    /\ attempts = << >>
    /\ req = [r \in Reqs |-> NoReq]
    /\ mq = << >>
    /\ response = NoResponse
    /\ leftRight = 0
    /\ authLib = 0
    /\ ideology = "none"
    /\ table = << >>
    /\ arg = "none"
    /\ out = NoOut
    /\ name = << >>
    /\ shortName = NoShortName
    /\ InitPage

NextEmbedded ==
    \/ \E r \in Reqs : Schedule(r)
    \/ \E r \in Reqs, ep \in Endpoints : fetchEmbedded(r, ep)
    \/ \E a \in Reqs : Settle(a)
    \/ \E a \in Reqs, ok \in BOOLEAN : InitCont(a, ok)
    \/ \E r \in Reqs : initDatabaseResume(r)

SpecEmbedded == InitEmbedded /\ [][NextEmbedded]_vars

\* The classifier on every pair of scores.
InitClassify ==
    /\ usePostgres = FALSE
    /\ isBrowserEnvironment = FALSE
    /\ sqliteDb = 0
    /\ sqliteInitPromise = 0
    /\ pgPool = 0
    /\ pgInitPromise = 0
    /\ attempts = << >>
    /\ req = [r \in Reqs |-> NoReq]
    /\ mq = << >>
    /\ response = NoResponse
    /\ leftRight \in Scores
    /\ authLib \in Scores
    /\ ideology = "none"
    /\ table = << >>
    /\ arg = "none"
    /\ out = NoOut
    /\ name = << >>
    /\ shortName = NoShortName
    /\ InitPage

NextClassify == Classify

\* Three party names of the bundled data.
ChristianDemocraticUnion ==
    <<"C", "h", "r", "i", "s", "t", "i", "a", "n", " ", "D", "e", "m", "o",
      "c", "r", "a", "t", "i", "c", " ", "U", "n", "i", "o", "n">>

FDP == <<"F", "D", "P">>

AllianceGreens ==
    <<"A", "l", "l", "i", "a", "n", "c", "e", " ", "9", "0", "/", "T", "h",
      "e", " ", "G", "r", "e", "e", "n", "s">>

NameChars == {"a", "b", " "}

\* Every name of at most MaxNameLen characters, and the three names above.
Names ==
    UNION {[1..n -> NameChars] : n \in 0..MaxNameLen}
        \cup {ChristianDemocraticUnion, FDP, AllianceGreens}

\* The short name of every name.
InitName ==
    /\ usePostgres = FALSE
    /\ isBrowserEnvironment = FALSE
    /\ sqliteDb = 0
    /\ sqliteInitPromise = 0
    /\ pgPool = 0
    /\ pgInitPromise = 0
    /\ attempts = << >>
    /\ req = [r \in Reqs |-> NoReq]
    /\ mq = << >>
    /\ response = NoResponse
    /\ leftRight = 0
    /\ authLib = 0
    /\ ideology = "none"
    /\ table = << >>
    /\ arg = "none"
    /\ out = NoOut
    /\ name \in Names
    /\ shortName = NoShortName
    /\ InitPage

NextName == Shorten

SpecName == InitName /\ [][NextName]_vars

\* The (chunk_index, policy_id) pairs of the stored rows.
PolicyKeys == {<<0, 2>>, <<1, 1>>}

\* The contents of a stored llm_responses row: party_id, policy, short_name,
\* impact, impact_explanation, category, explanation, econ_freedom,
\* personal_freedom, error.
PolicyContents ==
    {<<"cdu", Text("Cut taxes"), Text("Taxes"), Text("high"), NullText,
       Text("[\"tax\",\"health\"]"), Text("why"), Num(Scale), Null,
       NullText>>,
     <<"cdu", Text("Build roads"), Text("Roads"), NullText, Text("because"),
       NullText, NullText, NumText(Scale), JunkText, NullText>>,
     <<"cdu", Text("Ban cars"), Text("Cars"), Text("critical"), NullText,
       Text("tax, health"), Text(""), Null, Null, NullText>>,
     <<"cdu", Text("Free buses"), Text("Buses"), Text(""), Text(""),
       Text("{\"a\":1}"), NullText, Null, Num(0), NullText>>,
     <<"cdu", Text("More parks"), Text("Parks"), Text("low"), NullText,
       Text(""), NullText, Null, Null, NullText>>,
     <<"cdu", Text("Less noise"), Text("Noise"), Text("medium"), NullText,
       Text("null"), NullText, Null, Null, NullText>>,
     <<"cdu", Text("Lost chunk"), Text("Lost"), Text("high"), NullText,
       Text("[]"), NullText, Null, Null, Text("timeout")>>,
     <<"cdu", NullText, Text("Nothing"), Text("high"), NullText,
       NullText, NullText, Null, Null, NullText>>,
     <<"cdu", Text(""), Text("Empty"), Text("high"), NullText,
       NullText, NullText, Null, Null, NullText>>,
     <<"cdu", Text("No name"), NullText, Text("low"), NullText,
       NullText, NullText, Null, Null, NullText>>,
     <<"cdu", Text("Empty name"), Text(""), Text("low"), NullText,
       NullText, NullText, Null, Null, NullText>>,
     <<"spd", Text("Raise wages"), Text("Wages"), Text("high"), NullText,
       Text("[]"), NullText, Null, Null, NullText>>}

PolicyShapes == PolicyKeys \X PolicyContents

\* The llm_responses tables of at most MaxRows rows; a row's id is its place.
PolicyTables ==
    UNION {{[i \in 1..n |->
               [id |-> i, chunk_index |-> f[i][1][1], policy_id |-> f[i][1][2],
                party_id |-> f[i][2][1], policy |-> f[i][2][2],
                short_name |-> f[i][2][3], impact |-> f[i][2][4],
                impact_explanation |-> f[i][2][5], category |-> f[i][2][6],
                explanation |-> f[i][2][7], econ_freedom |-> f[i][2][8],
                personal_freedom |-> f[i][2][9], error |-> f[i][2][10]]] :
            f \in [1..n -> PolicyShapes]} : n \in 0..MaxRows}

\* The policies read operation on both paths over one stored table.
InitPolicies ==
    /\ usePostgres = FALSE
    /\ isBrowserEnvironment = FALSE
    /\ sqliteDb = 0
    /\ sqliteInitPromise = 0
    /\ pgPool = 0
    /\ pgInitPromise = 0
    /\ attempts = << >>
    /\ req = [r \in Reqs |-> NoReq]
    /\ mq = << >>
    /\ response = NoResponse
    /\ leftRight = 0
    /\ authLib = 0
    /\ ideology = "none"
    /\ table \in PolicyTables
    /\ arg \in PartyIds
    /\ out = NoOut
    /\ name = << >>
    /\ shortName = NoShortName
    /\ InitPage

NextPolicies == \E p \in Stores : fetchPartyPoliciesFromDatabase(p)

SpecPolicies == InitPolicies /\ [][NextPolicies]_vars

\* The columns founded, econ_freedom and personal_freedom of a stored party:
\* numbers and nulls, and text where the store or its driver delivers text
\* (numeric columns as text, text kept in a numeric column).
PartyNumerics ==
    {<<Null, Null, Null>>,
     <<Num(1990), Num(-4 * Scale), Num(0)>>,
     <<Num(2004), Null, Num(4 * Scale)>>,
     <<NumText(1990), NumText(3 * Scale), Num(-3 * Scale)>>,
     <<JunkText, JunkText, EmptyText>>}

\* The country and the name rank of a stored party.
PartyPlaces ==
    {x \in StoredCountries \X NameRanks : x[1] = "Germany" \/ x[2] = 1}

PartyShapes == PartyPlaces \X PartyNumerics

\* The parties tables of at most MaxRows rows; a row's id is its place.
PartyTables ==
    UNION {{[i \in 1..n |->
               [id |-> i, country |-> f[i][1][1], name |-> f[i][1][2],
                founded |-> f[i][2][1], econ_freedom |-> f[i][2][2],
                personal_freedom |-> f[i][2][3]]] :
            f \in [1..n -> PartyShapes]} : n \in 0..MaxRows}

\* The parties read operation on both paths over one stored table.
InitParties ==
    /\ usePostgres = FALSE
    /\ isBrowserEnvironment = FALSE
    /\ sqliteDb = 0
    /\ sqliteInitPromise = 0
    /\ pgPool = 0
    /\ pgInitPromise = 0
    /\ attempts = << >>
    /\ req = [r \in Reqs |-> NoReq]
    /\ mq = << >>
    /\ response = NoResponse
    /\ leftRight = 0
    /\ authLib = 0
    /\ ideology = "none"
    /\ table \in PartyTables
    /\ arg \in CountryCodes
    /\ out = NoOut
    /\ name = << >>
    /\ shortName = NoShortName
    /\ InitPage

NextParties == \E p \in Stores : fetchPartiesFromDatabase(p)

SpecParties == InitParties /\ [][NextParties]_vars

\* The countries read operation on both paths over one stored table.
InitCountries ==
    /\ usePostgres = FALSE
    /\ isBrowserEnvironment = FALSE
    /\ sqliteDb = 0
    /\ sqliteInitPromise = 0
    /\ pgPool = 0
    /\ pgInitPromise = 0
    /\ attempts = << >>
    /\ req = [r \in Reqs |-> NoReq]
    /\ mq = << >>
    /\ response = NoResponse
    /\ leftRight = 0
    /\ authLib = 0
    /\ ideology = "none"
    /\ table \in PartyTables
    /\ arg = "none"
    /\ out = NoOut
    /\ name = << >>
    /\ shortName = NoShortName
    /\ InitPage

\* The three read operations, each on both paths over one stored table.
InitRows == InitCountries \/ InitParties \/ InitPolicies

NextRows ==
    \/ \E p \in Stores : fetchCountriesFromDatabase(p)
    \/ \E p \in Stores : fetchPartiesFromDatabase(p)
    \/ \E p \in Stores : fetchPartyPoliciesFromDatabase(p)

SpecRows == InitRows /\ [][NextRows]_vars

SpecClassify == InitClassify /\ [][NextClassify]_vars

\* ------------------------------------------------------------ the claims
Attempts == 1..Len(attempts)

AttemptsOf(s) == {a \in Attempts : attempts[a].store = s}

Handle(s) == IF s = "pg" THEN pgPool ELSE sqliteDb

InitPromise(s) == IF s = "pg" THEN pgInitPromise ELSE sqliteInitPromise

Pending(a) == attempts[a].stage \notin {"resolved", "rejected"}

WaitingOn(a) == {r \in Reqs : req[r].pc = "waitInit" /\ req[r].att = a}

\* C1: for each store, while its first initialization attempt has not
\* settled, that attempt is the only attempt of the store that was ever
\* started, it is the cached in-flight attempt, and every read operation
\* suspended in ensure* on that store awaits it.
C1_SingleInitAttempt ==
    \A s \in Stores :
        \A f \in AttemptsOf(s) :
            ((\A a \in AttemptsOf(s) : f <= a) /\ Pending(f)) =>
                /\ AttemptsOf(s) = {f}
                /\ InitPromise(s) = f
                /\ Handle(s) = 0
                /\ \A r \in Reqs :
                      (req[r].pc = "waitInit" /\ req[r].store = s) =>
                          req[r].att = f

\* Three read operations await the one pending attempt of a store.
C1_Witness ==
    \E a \in Attempts : Pending(a) /\ Cardinality(WaitingOn(a)) >= 3

C2_RetryAfterHandler ==
    /\ \A a \in Attempts :
          (attempts[a].stage = "rejected" /\ attempts[a].handled) =>
              InitPromise(attempts[a].store) # a
    /\ \A r \in Reqs :
          req[r].pc = "waitQuery" => req[r].db # 0
    /\ (response.r # 0 /\ response.att # 0) =>
          IF attempts[response.att].stage = "resolved"
          THEN response.db = response.att /\ response.status = 200
          ELSE response.db = 0 /\ response.failed

\* A first attempt failed and was handled, a later request started a second
\* attempt of the same store, which succeeded, and was answered with rows.
C2_Witness ==
    /\ response.att = 2
    /\ response.db = 2
    /\ response.body = "rows"
    /\ attempts[1].stage = "rejected"
    /\ attempts[1].handled
    /\ attempts[1].store = attempts[2].store

C4_ReadNeverRejects ==
    (response.r # 0 /\ response.touched # {}) =>
        /\ response.res \in {"rows", "empty"}
        /\ response.failed => response.res = "empty"

\* A read operation on the Postgres path whose initialization failed gave
\* the empty array.
C4_Witness ==
    /\ response.failed
    /\ response.store = "pg"
    /\ response.db = 0
    /\ response.res = "empty"

\* C5: with a connection string configured no read operation initializes or
\* queries SQLite, and one whose Postgres initialization or query fails
\* returns the empty array; without a connection string no read operation
\* initializes or queries Postgres.
C5_SourceExclusive ==
    LET other == IF usePostgres THEN "sqlite" ELSE "pg" IN
    /\ AttemptsOf(other) = {}
    /\ Handle(other) = 0
    /\ InitPromise(other) = 0
    /\ \A r \in Reqs : other \notin req[r].touched
    /\ other \notin response.touched
    /\ (usePostgres /\ response.failed) =>
          (response.res = "empty" /\ response.touched = {"pg"})

\* With a connection string configured, a read operation whose Postgres
\* query failed returned the empty array without touching SQLite.
C5_Witness ==
    /\ usePostgres
    /\ response.failed
    /\ response.db # 0
    /\ response.touched = {"pg"}
    /\ response.res = "empty"

\* C7: each endpoint answers 405 to a request whose method is not GET, 400
\* to a GET request whose required parameter (country, partyId) has no
\* value, and 200 with the array of the data layer, empty or not, to every
\* other request.
C7_StatusCodes ==
    response.r # 0 =>
        IF response.method # "GET"
        THEN response.status = 405
        ELSE IF response.ep \in {"parties", "policies"}
                /\ response.param \in {"missing", "empty"}
        THEN response.status = 400
        ELSE /\ response.status = 200
             /\ response.body \in {"rows", "empty"}
             /\ response.body = response.res

\* The countries endpoint, which requires no parameter, answers 200 with an
\* empty array that is not the result of a failure.
C7_Witness ==
    /\ response.ep = "countries"
    /\ response.status = 200
    /\ response.body = "empty"
    /\ ~response.failed

\* C8: a GET request with its parameter present whose store initialization
\* or query failed is answered 200 with the empty array; no request is
\* answered 500; and no request is left without an answer to come: a request
\* suspended in ensure* awaits a pending attempt as one of its waiters or
\* has its resumption queued.
C8_OutageIsEmpty200 ==
    /\ response.status # 500
    /\ response.failed => (response.status = 200 /\ response.body = "empty")
    /\ \A r \in Reqs :
          req[r].pc = "waitInit" =>
              LET a == req[r].att IN
              IF Pending(a)
              THEN \E i \in 1..Len(attempts[a].waiters) :
                      attempts[a].waiters[i] = r
              ELSE \E i \in 1..Len(mq) : mq[i] = Job("waiter", r, a)

\* A request on the SQLite path whose query threw is answered 200 with the
\* empty array.
C8_Witness ==
    /\ response.failed
    /\ response.store = "sqlite"
    /\ response.db # 0
    /\ response.status = 200
    /\ response.body = "empty"

\* C6: in a browser each read operation of the browser service calls the
\* HTTP API before it touches the embedded store, and when the HTTP request
\* threw or was answered with a non-success status the operation returns
\* what its embedded-store fallback returned.
C6_FallbackOnApiFailure ==
    /\ isBrowserEnvironment =>
          /\ \A r \in Reqs :
                req[r].touched # {} => req[r].api \in ApiOutcomes
          /\ response.r # 0 => response.api \in ApiOutcomes
    /\ (response.r # 0 /\ response.api \in {"throw", "notOk"}) =>
          /\ response.touched = {"sqlite"}
          /\ response.res \in {"rows", "empty"}
          /\ response.body = response.res

\* A read operation whose HTTP request was answered with a non-success
\* status returned the rows its fallback read from the embedded store.
C6_Witness ==
    /\ response.caller = "browser"
    /\ response.api = "notOk"
    /\ response.db # 0
    /\ response.body = "rows"

\* The rule list of the classifier: rule i holds of the scores (e, p).
RuleHolds(i, e, p) ==
    CASE i = 1 -> Abs(e) < Scale /\ Abs(p) < Scale
      [] i = 2 -> e < -2 * Scale /\ p > 2 * Scale
      [] i = 3 -> e > 2 * Scale /\ p < -2 * Scale
      [] i = 4 -> e > 2 * Scale /\ p > 2 * Scale
      [] i = 5 -> e < -2 * Scale /\ p < -2 * Scale
      [] i = 6 -> e < -3 * Scale
      [] i = 7 -> p > 3 * Scale
      [] i = 8 -> TRUE

RuleLabel ==
    <<"centrist", "liberal", "conservative", "libertarian", "authoritarian",
      "socialist", "green", "centrist">>

FirstMatch(e, p) ==
    CHOOSE i \in 1..8 :
        RuleHolds(i, e, p) /\ \A j \in 1..(i - 1) : ~RuleHolds(j, e, p)

\* C9: determineIdeology returns, for every pair of scores, one of the seven
\* labels, and it is the label of the first rule of the rule list that
\* holds of the pair.
C9_FirstMatchingRule ==
    ideology # "none" =>
        /\ ideology \in Ideologies
        /\ ideology = RuleLabel[FirstMatch(leftRight, authLib)]

\* Scores in the liberal quadrant that also lie in the socialist and in the
\* green band were classified liberal, by the earlier rule.
C9_Witness ==
    /\ leftRight = -3 * Scale - 1
    /\ authLib = 3 * Scale + 1
    /\ ideology = "liberal"

\* C10: the thresholds are strict.  A pair with a score of exactly 2 or -2
\* is in neither quadrant that the score bounds, a left-right score of
\* exactly -3 is not socialist, an auth-lib score of exactly 3 is not green;
\* (-2, 3) is not liberal and (-2.01, 2.01) is liberal.
C10_StrictThresholds ==
    ideology # "none" =>
        /\ leftRight = -2 * Scale =>
              ideology \notin {"liberal", "authoritarian"}
        /\ leftRight = 2 * Scale =>
              ideology \notin {"conservative", "libertarian"}
        /\ authLib = 2 * Scale =>
              ideology \notin {"liberal", "libertarian"}
        /\ authLib = -2 * Scale =>
              ideology \notin {"conservative", "authoritarian"}
        /\ leftRight = -3 * Scale => ideology # "socialist"
        /\ authLib = 3 * Scale => ideology # "green"
        /\ (leftRight = -2 * Scale /\ authLib = 3 * Scale) =>
              ideology # "liberal"
        /\ (leftRight = -2 * Scale - 1 /\ authLib = 2 * Scale + 1) =>
              ideology = "liberal"

\* The pair (-2, 3), on two thresholds at once, was classified centrist.
C10_Witness ==
    /\ leftRight = -2 * Scale
    /\ authLib = 3 * Scale
    /\ ideology = "centrist"

\* C11: a pair classified socialist has its left-right score outside the
\* closed band [-2, 2] and its auth-lib score inside it, a pair classified
\* green has its auth-lib score outside the band and its left-right score
\* inside it; (-4, 0) is socialist and (0, 4) is green.
InBand(x) == -2 * Scale <= x /\ x <= 2 * Scale

C11_BandLabels ==
    ideology # "none" =>
        /\ ideology = "socialist" => (~InBand(leftRight) /\ InBand(authLib))
        /\ ideology = "green" => (InBand(leftRight) /\ ~InBand(authLib))
        /\ (leftRight = -4 * Scale /\ authLib = 0) => ideology = "socialist"
        /\ (leftRight = 0 /\ authLib = 4 * Scale) => ideology = "green"

\* The pair (-4, 0) was classified socialist.
C11_Witness ==
    /\ leftRight = -4 * Scale
    /\ authLib = 0
    /\ ideology = "socialist"

\* The entries returned on path p, with the stored row each comes from.
Returned(p) ==
    {<<out[p].rows[k], table[out[p].rows[k].id]>> : k \in 1..Len(out[p].rows)}

IsScore(c) == c.t \in {"number", "null"}

\* C12: on either path, a returned party whose stored scores are numbers or
\* null has those scores with null replaced by 0, and every returned party
\* has the ideology determineIdeology gives for its returned scores; a party
\* stored with both scores null is returned with 0, 0 and centrist.
C12_ScoresAndIdeology ==
    \A p \in Stores : \A x \in Returned(p) :
        LET o == x[1]
            row == x[2]
        IN  /\ IsScore(row.econ_freedom) =>
                  o.econFreedom = Coalesce(row.econ_freedom, Num(0))
            /\ IsScore(row.personal_freedom) =>
                  o.personalFreedom = Coalesce(row.personal_freedom, Num(0))
            /\ o.ideology =
                  determineIdeologyCoerced(o.econFreedom, o.personalFreedom)
            /\ (o.econFreedom.t = "number" /\ o.personalFreedom.t = "number")
                  => o.ideology =
                        determineIdeology(o.econFreedom.v, o.personalFreedom.v)
            /\ (row.econ_freedom = Null /\ row.personal_freedom = Null) =>
                  /\ o.econFreedom = Num(0)
                  /\ o.personalFreedom = Num(0)
                  /\ o.ideology = "centrist"

\* Both paths returned a party stored with both scores null, and one stored
\* with one score null that is not centrist.
C12_Witness ==
    /\ \A p \in Stores :
          \E x \in Returned(p) :
              /\ x[2].econ_freedom = Null
              /\ x[2].personal_freedom = Null
              /\ x[1].ideology = "centrist"
    /\ \E x \in Returned("sqlite") :
          /\ x[2].econ_freedom = Null
          /\ x[1].econFreedom = Num(0)
          /\ x[1].ideology # "centrist"

Spaces(s) == Cardinality({i \in 1..Len(s) : s[i] = " "})

\* C13: the short name of a name with two or more spaces (more than two
\* tokens when split on single spaces) is the name up to its first space,
\* and the short name of a name with fewer spaces is the name itself, its
\* one or two tokens joined by a space; "Christian Democratic Union" gives
\* "Christian" and "FDP" gives "FDP".
C13_ShortName ==
    shortName.done =>
        /\ Spaces(name) >= 2 =>
              /\ shortName.text = SubSeq(name, 1, Len(shortName.text))
              /\ Spaces(shortName.text) = 0
              /\ name[Len(shortName.text) + 1] = " "
        /\ Spaces(name) < 2 => shortName.text = name
        /\ name = ChristianDemocraticUnion =>
              shortName.text =
                  <<"C", "h", "r", "i", "s", "t", "i", "a", "n">>
        /\ name = FDP => shortName.text = <<"F", "D", "P">>

\* The short name of a name with two adjacent spaces, which split into
\* three tokens, one of them empty, was derived.
C13_Witness ==
    /\ shortName.done
    /\ name = <<"a", " ", " ", "b">>
    /\ shortName.text = <<"a">>

\* C14 as claimed: the short name of "Alliance 90/The Greens" is
\* "Alliance 90/The".
C14_AllianceAsClaimed ==
    (shortName.done /\ name = AllianceGreens) =>
        shortName.text = SubSeq(AllianceGreens, 1, 15)

\* C14, amended: "Alliance 90/The Greens" splits into three tokens, so its
\* short name is the first token alone, "Alliance".
C14_AllianceFirstToken ==
    (shortName.done /\ name = AllianceGreens) =>
        shortName.text = <<"A", "l", "l", "i", "a", "n", "c", "e">>

\* The short name of "Alliance 90/The Greens" was derived.
C14_Witness ==
    /\ shortName.done
    /\ name = AllianceGreens
    /\ Len(Split(name)) = 3

NonEmptyText(x) == x.t = "text" /\ x.s # ""

\* The stored rows of the party asked for that have no error, a policy text
\* and a short name.
Eligible ==
    {i \in 1..Len(table) :
        /\ table[i].party_id = arg
        /\ table[i].error = NullText
        /\ NonEmptyText(table[i].policy)
        /\ NonEmptyText(table[i].short_name)}

EntryRows(p) == {out[p].rows[k].row : k \in 1..Len(out[p].rows)}

\* C15: on either path the output of the policies read operation holds one
\* entry for each stored row of the party whose error is null and whose
\* policy text and short name are non-null and non-empty, and no other
\* entry.
C15_IncludedRows ==
    \A p \in Stores :
        out[p].done =>
            /\ EntryRows(p) = Eligible
            /\ Len(out[p].rows) = Cardinality(Eligible)

\* The party has a row with an empty short name and a row with all three
\* present; the output holds the entry of the second alone.
C15_Witness ==
    /\ out["sqlite"].done
    /\ Len(out["sqlite"].rows) = 1
    /\ \E i \in 1..Len(table) :
          /\ table[i].party_id = arg
          /\ table[i].error = NullText
          /\ NonEmptyText(table[i].policy)
          /\ table[i].short_name = Text("")

ImpactLiterals == {"high", "medium", "low"}

\* C16: the impact of every returned entry is "high", "medium" or "low": a
\* stored impact that is one of the three is passed through and every other
\* stored impact gives "medium".
C16_ImpactLiterals ==
    \A p \in Stores : \A k \in 1..Len(out[p].rows) :
        LET o == out[p].rows[k]
            stored == table[o.row].impact
        IN  /\ o.impact \in ImpactLiterals
            /\ o.impact = IF stored.t = "text" /\ stored.s \in ImpactLiterals
                          THEN stored.s ELSE "medium"

\* C17: every row that has no error, a policy text and a short name is in
\* the output whatever its category column holds, with the array its
\* category parses to, and with the empty array when the category is null,
\* empty, not JSON or JSON that is no array.
C17_CategoriesArray ==
    \A p \in Stores :
        out[p].done =>
            /\ Len(out[p].rows) = Cardinality(Eligible)
            /\ \A i \in Eligible :
                  \E k \in 1..Len(out[p].rows) :
                      /\ out[p].rows[k].row = i
                      /\ out[p].rows[k].categories =
                            IF table[i].category = Text("[\"tax\",\"health\"]")
                            THEN <<"tax", "health">>
                            ELSE << >>

\* One call returned a row whose category is not JSON, with the empty
\* array, and a row whose category is a JSON array, with that array.
C17_Witness ==
    /\ out["pg"].done
    /\ Len(out["pg"].rows) = 2
    /\ \E k \in 1..2 :
          /\ table[out["pg"].rows[k].row].category = Text("tax, health")
          /\ out["pg"].rows[k].categories = << >>
    /\ \E k \in 1..2 : out["pg"].rows[k].categories = <<"tax", "health">>

\* Row a is not after row b in (chunk_index, policy_id) order.
ChunkPolicyLeq(a, b) ==
    \/ a.chunk_index < b.chunk_index
    \/ a.chunk_index = b.chunk_index /\ a.policy_id <= b.policy_id

NameRankOf(c) == IF c = "Germany" THEN 1 ELSE IF c = "Italy" THEN 2 ELSE 3

\* C18: on either path the policies returned are in ascending
\* (chunk_index, policy_id) order of their stored rows, each row at most
\* once; the parties returned are in ascending name order and the countries
\* in ascending name order.
C18_OutputOrder ==
    \A p \in Stores : \A i, j \in 1..Len(out[p].rows) :
        i < j =>
            LET a == out[p].rows[i]
                b == out[p].rows[j]
            IN  IF arg \in PartyIds
                THEN /\ a.row # b.row
                     /\ ChunkPolicyLeq(table[a.row], table[b.row])
                ELSE IF arg \in CountryCodes
                THEN a.id # b.id /\ a.name <= b.name
                ELSE NameRankOf(a.name) < NameRankOf(b.name)

\* Two policies stored in descending (chunk_index, policy_id) order were
\* returned in ascending order.
C18_Witness ==
    /\ arg \in PartyIds
    /\ Len(out["sqlite"].rows) = 2
    /\ out["sqlite"].rows[1].row = 2
    /\ out["sqlite"].rows[2].row = 1
    /\ table[2].policy_id > table[1].policy_id

\* The normalized scores of the entries returned on path p.
ReturnedScores(p) ==
    {out[p].rows[k].econFreedom : k \in 1..Len(out[p].rows)}
        \cup {out[p].rows[k].personalFreedom : k \in 1..Len(out[p].rows)}

\* C19: on both paths of the parties and policies read operations the
\* normalized econFreedom and personalFreedom are a number or null, a number
\* for parties, and never a text value.
C19_NumericCoercion ==
    \A p \in Stores :
        arg # "none" =>
            \A x \in ReturnedScores(p) :
                IF arg \in CountryCodes THEN x.t = "number"
                ELSE x.t \in {"number", "null"}

\* C20: the two paths of a read operation, run over the same stored rows,
\* return the same entries (in the same order, up to the order of rows with
\* equal sort keys).
C20_PathsAgree ==
    (out["pg"].done /\ out["sqlite"].done) =>
        /\ Len(out["pg"].rows) = Len(out["sqlite"].rows)
        /\ {out["pg"].rows[k] : k \in 1..Len(out["pg"].rows)} =
              {out["sqlite"].rows[k] : k \in 1..Len(out["sqlite"].rows)}

\* The distinct non-empty country values of the stored parties.
StoredCountryNames == {table[i].country : i \in 1..Len(table)} \ {""}

\* C21: on either path the countries read operation returns one entry for
\* each distinct non-empty country of the parties table and no other entry;
\* an entry's code is its name and its flag is the flag table's entry for
\* that name; a country the flag table lacks is returned without a flag.
C21_CountriesListed ==
    \A p \in Stores :
        (arg = "none" /\ out[p].done) =>
            /\ {out[p].rows[k].name : k \in 1..Len(out[p].rows)}
                  = StoredCountryNames
            /\ Len(out[p].rows) = Cardinality(StoredCountryNames)
            /\ \A k \in 1..Len(out[p].rows) :
                  LET o == out[p].rows[k] IN
                  /\ o.code = o.name
                  /\ o.flag = IF o.name \in {"Germany", "Poland"}
                              THEN "flag of " \o o.name
                              ELSE "undefined"

\* Two stored parties of a country the flag table lacks gave one entry,
\* without a flag.
C21_Witness ==
    /\ arg = "none"
    /\ Len(table) = 2
    /\ table[1].country = "Italy"
    /\ table[2].country = "Italy"
    /\ out["pg"].done
    /\ Len(out["pg"].rows) = 1
    /\ out["pg"].rows[1].flag = "undefined"

\* The stored parties of the country asked for.
PartiesOfCountry == {i \in 1..Len(table) : table[i].country = arg}

\* C22: on either path the parties read operation for country c returns one
\* party for each stored party whose country is c, carrying that party's id
\* and name, and no other party; it returns the empty array when no stored
\* party has country c.
C22_PartiesOfCountry ==
    \A p \in Stores :
        (arg \in CountryCodes /\ out[p].done) =>
            /\ {out[p].rows[k].id : k \in 1..Len(out[p].rows)}
                  = PartiesOfCountry
            /\ Len(out[p].rows) = Cardinality(PartiesOfCountry)
            /\ \A k \in 1..Len(out[p].rows) :
                  out[p].rows[k].name = table[out[p].rows[k].id].name
            /\ PartiesOfCountry = {} => out[p].rows = << >>

\* A table of two parties, none of the country asked for, gave the empty
\* array.
C22_Witness ==
    /\ arg \in CountryCodes
    /\ Len(table) = 2
    /\ table[1].country # ""
    /\ out["sqlite"].done
    /\ out["sqlite"].rows = << >>

\* C23: in the embedded-only service a read operation that is called when
\* the database is not open and every initialization attempt made so far
\* has thrown starts a new initialization attempt.
C23_NextCallStartsFresh ==
    [][\A r \in Reqs :
          (/\ req[r].pc = "scheduled"
           /\ req'[r].pc # "scheduled"
           /\ sqliteDb = 0
           /\ Attempts # {}
           /\ \A a \in Attempts : attempts[a].stage = "rejected") =>
              Len(attempts') = Len(attempts) + 1]_vars

\* C24: in the embedded-only service a read operation never rejects to its
\* caller; it gives an array, and the empty array when initDatabase failed.
C24_EmbeddedNeverRejects ==
    response.caller = "embedded" =>
        /\ response.res \in {"rows", "empty"}
        /\ response.failed => response.res = "empty"

C26_NeonThenPg ==
    \A a \in AttemptsOf("pg") :
        LET t == attempts[a] IN
        /\ t.pg # "none" => t.neon = "failed"
        /\ t.neon = "ok" => t.pg = "none"
        /\ t.stage = "rejected" <=> (t.neon = "failed" /\ t.pg = "failed")
        /\ t.stage = "resolved" <=> (t.neon = "ok" \/ t.pg = "ok")
        /\ pgPool = a => (t.neon = "ok" \/ t.pg = "ok")
        /\ t.neon = "probing" => t.stage = "neonProbe"
        /\ t.pg = "probing" => t.stage = "pgProbe"

\* The Neon adapter's probe query failed, the pg pool's probe query
\* succeeded, and pgPool holds the pool.
C26_Witness ==
    \E a \in AttemptsOf("pg") :
        /\ attempts[a].neon = "failed"
        /\ attempts[a].pg = "ok"
        /\ pgPool = a

\* C27: in a browser, a read operation of the browser service whose HTTP
\* request was answered with a success status and a JSON array, empty or
\* not, returns that array and has neither asked for the embedded store to
\* be initialized nor queried it.
C27_ApiArrayReturned ==
    (response.caller = "browser" /\ response.api \in {"array", "emptyArray"})
        => /\ response.body =
                 IF response.api = "array" THEN "apiRows" ELSE "apiEmpty"
           /\ response.touched = {}
           /\ response.store = "none"
           /\ response.att = 0
           /\ response.db = 0

\* The API answered with the empty array, which was returned while the
\* embedded store had never been asked for.
C27_Witness ==
    /\ response.caller = "browser"
    /\ response.api = "emptyArray"
    /\ response.body = "apiEmpty"
    /\ attempts = << >>

\* C28: a step sends at most one response, to a request that had none, and
\* an answered request is never answered again; a request whose method is
\* not GET is answered 405 whether or not its parameter is present, and 400
\* goes to GET requests alone; the step that answers 405 or 400 is the
\* handler's first, and it neither calls the data layer nor changes a store
\* handle, an in-flight attempt or the list of attempts.
C28_OneResponseInOrder ==
    [][/\ \A r \in Reqs : req[r].pc = "done" => req'[r].pc = "done"
       /\ response'.r # 0 =>
             /\ req[response'.r].pc \notin {"new", "done"}
             /\ req'[response'.r].pc = "done"
             /\ \A r \in Reqs \ {response'.r} : req'[r] = req[r]
             /\ response'.method # "GET" => response'.status = 405
             /\ response'.status = 400 => response'.method = "GET"
             /\ response'.status \in {400, 405} =>
                   /\ req[response'.r].pc = "scheduled"
                   /\ response'.touched = {}
                   /\ response'.store = "none"
                   /\ response'.att = 0
                   /\ attempts' = attempts
                   /\ storeVars' = storeVars]_vars

\* A DELETE request to the parties endpoint without its parameter was
\* answered 405.
C28_Witness ==
    /\ response.ep = "parties"
    /\ response.method = "DELETE"
    /\ response.param = "missing"
    /\ response.status = 405
    /\ response.touched = {}

\* C29: when every step of an initialization attempt and every query
\* settles, every request whose handler has been called is answered: its
\* read operation returns to the handler, also when it awaited an attempt
\* shared with other requests that failed.
C29_EveryCallReturns ==
    \A r \in Calls :
        (req[r].pc \notin {"new", "done"}) ~> (req[r].pc = "done")

\* A request that awaited a failed attempt has been answered while another
\* request that awaited the same attempt is still to be resumed.
C29_Witness ==
    /\ response.failed
    /\ response.att # 0
    /\ response.db = 0
    /\ \E r \in Calls : req[r].pc = "waitInit" /\ req[r].att = response.att

\* C30: in every state of the Index page an open drawer has a selected
\* party; handleCountrySelect and the drawer's onClose leave no party
\* selected and the drawer closed; handlePartyClick leaves the selected
\* countries as they were.
C30_DrawerHasParty ==
    /\ [](isDrawerOpen => selectedParty # "null")
    /\ [][/\ ((\E c \in CountryLists : handleCountrySelect(c)) =>
                 (selectedParty' = "null" /\ ~isDrawerOpen'))
           /\ (onClose => (selectedParty' = "null" /\ ~isDrawerOpen'))
           /\ ((\E party \in PartyIds : handlePartyClick(party)) =>
                 (selectedCountries' = selectedCountries))]_vars

\* With a party selected and the drawer open, two countries are selected.
C30_Witness ==
    /\ isDrawerOpen
    /\ selectedParty \in PartyIds
    /\ Len(selectedCountries) = 2

====
